---- MODULE Spec2Model ----
(***************************************************************************)
(* UserService (src/app/modules/user/services/user.service.ts) over a      *)
(* TypeORM repository of UserEntity rows, driven by concurrent requests.   *)
(* Every `await` on the repository is one atomic step of a request; the    *)
(* steps of different requests interleave freely.                          *)
(***************************************************************************)
EXTENDS Integers, Sequences, FiniteSets, TLC

\* ------------------------------------------------------------------ bounds
MaxCalls == 3       \* service calls started in one behaviour
MaxUsers == 2       \* ids the id sequence hands out: 1..MaxUsers

Procs     == {1, 2}                 \* requests in flight at once
Salts     == {1, 2}                 \* outcomes of bcrypt's random salt
UserNames == {"ann"}                \* names given to create
UpdateNames == {"bob"}              \* names given to update
Emails    == {"a@x", "b@x"}
CreatePasswords == {"pw1"}          \* raw passwords given to create
UpdatePasswords == {"", "pw2"}      \* raw passwords given to update ("" is empty)
RawTokens == {"tok"}
Pages     == {1, 2}
Limits    == {1, 2}

\* ------------------------------------------------------------------ values
\* JavaScript values a password / refreshToken column or DTO field can hold:
\* null, a caller-supplied string, or the output of bcrypt.hash.
Null == [kind |-> "null", salt |-> 0, text |-> ""]
Str(s) == [kind |-> "str", salt |-> 0, text |-> s]

\* bcrypt.hash(raw, salt): a one-way digest that depends on the salt and on
\* the raw text, and is never equal to the raw string itself.
BcryptHash(raw, salt) == [kind |-> "hash", salt |-> salt, text |-> raw.text]

\* bcrypt.compare(raw, stored): only a bcrypt digest of that text verifies.
BcryptCompare(raw, stored) == stored.kind = "hash" /\ stored.text = raw.text

\* JavaScript truthiness of a string-or-null value: null and "" are falsy.
Truthy(v) == v.kind # "null" /\ ~(v.kind = "str" /\ v.text = "")

\* ------------------------------------------------------------------ errors
\* An exception is its class and the kind its message gives it.
FeatureDisabled     == [cls |-> "BadRequestException", kind |-> "FeatureDisabled"]
DuplicateEmail      == [cls |-> "BadRequestException", kind |-> "DuplicateEmail"]
NotFound            == [cls |-> "NotFoundException", kind |-> "NotFound"]
UnauthorizedLookup  == [cls |-> "UnauthorizedException", kind |-> "UnauthorizedLookup"]
OperationFailed     == [cls |-> "BadRequestException", kind |-> "OperationFailed"]
\* what the repository throws when an INSERT leaves a NOT NULL column unset
QueryFailed         == [cls |-> "QueryFailedError", kind |-> "QueryFailed"]
NoError             == [cls |-> "none", kind |-> "none"]

VARIABLES
    databaseEnabled,  \* UserService.databaseEnabled, read once from the config
    users,            \* the user table: id -> row
    nextId,           \* the table's id sequence (next id to hand out)
    pc,               \* per request: where it is suspended
    loc,              \* per request: the locals of the suspended call
    response,         \* what the last completed call returned or threw
    calls             \* number of service calls started so far

vars == <<databaseEnabled, users, nextId, pc, loc, response, calls>>

Ids == 1..MaxUsers

NoLocals == [op |-> "none"]

\* ------------------------------------------------------------- repository
\* findOneBy({ email }): some row with that email, if any.
EmailTaken(tbl, email) == \E i \in DOMAIN tbl : tbl[i].email = email

\* `delete obj.password` on a (copy of a) row.
MutStripPassword(u) == u
StripPassword(u) == [f \in (DOMAIN u) \ {"password"} |-> u[f]]

\* findAndCount({ skip, take, order: { createdAt: 'DESC' } }): the rows newest
\* first, then OFFSET skip LIMIT take, and the count of all rows.
RECURSIVE OrderByCreatedAtDesc(_, _)
OrderByCreatedAtDesc(tbl, ids) ==
    IF ids = {} THEN <<>>
    ELSE LET newest == CHOOSE i \in ids :
                           \A j \in ids : tbl[j].createdAt <= tbl[i].createdAt
         IN  <<tbl[newest]>> \o OrderByCreatedAtDesc(tbl, ids \ {newest})

Min(a, b) == IF a < b THEN a ELSE b

FindAndCount(tbl, skip, take) ==
    LET all == OrderByCreatedAtDesc(tbl, DOMAIN tbl)
    IN  [rows  |-> SubSeq(all, skip + 1, Min(skip + take, Len(all))),
         count |-> Len(all)]

\* Column constraints of the user table (UserEntity).  The password column is
\* required; the email column carries no unique index at the storage layer.
PasswordNotNull == TRUE

EmailUniqueIndex == FALSE

\* save(obj) of an object that carries an id: UPDATE of the columns the object
\* has when a row with that id exists, INSERT of the object under that id when
\* none does.  The statement fails when it breaks a column constraint.
SaveInserts(tbl, obj) == obj.id \notin DOMAIN tbl

SaveFails(tbl, obj) ==
    \/ SaveInserts(tbl, obj) /\ PasswordNotNull /\ "password" \notin DOMAIN obj
    \/ /\ EmailUniqueIndex
       /\ \E i \in (DOMAIN tbl) \ {obj.id} : tbl[i].email = obj.email

SaveTable(tbl, obj) ==
    IF SaveInserts(tbl, obj)
    THEN tbl @@ (obj.id :> obj)
    ELSE [tbl EXCEPT ![obj.id] = obj @@ @]

\* update({ id }, { refreshToken: v }): UPDATE ... WHERE id; no row, no change.
MutUpdateColumn(tbl, id, v) ==
    [i \in DOMAIN tbl |-> [tbl[i] EXCEPT !.refreshToken = v]]

UpdateColumn(tbl, id, v) ==
    IF id \in DOMAIN tbl THEN [tbl EXCEPT ![id].refreshToken = v] ELSE tbl

\* delete(id): DELETE ... WHERE id, reporting the number of rows affected.
DeleteRow(tbl, id) == [i \in (DOMAIN tbl) \ {id} |-> tbl[i]]

Affected(tbl, id) == IF id \in DOMAIN tbl THEN 1 ELSE 0

\* ---------------------------------------------------------------- service
\* The catch block of each method: which exceptions pass through as they are.
MutCreateCatch(e) == OperationFailed
CreateCatch(e) == IF e.cls = "BadRequestException" THEN e ELSE OperationFailed

FindOneCatch(e) == IF e.cls = "UnauthorizedException" THEN e ELSE OperationFailed

MutFindByIdCatch(e) == OperationFailed
FindByIdCatch(e) == IF e.cls = "NotFoundException" THEN e ELSE OperationFailed

MutUpdateCatchWrapsBadRequest(e) ==
    IF e.cls = "NotFoundException" THEN e ELSE OperationFailed

MutUpdateCatchWrapsNotFound(e) ==
    IF e.cls = "BadRequestException" THEN e ELSE OperationFailed

UpdateCatch(e) ==
    IF e.cls \in {"NotFoundException", "BadRequestException"}
    THEN e ELSE OperationFailed

MutRemoveCatch(e) == OperationFailed
RemoveCatch(e) == IF e.cls = "NotFoundException" THEN e ELSE OperationFailed

\* object destructuring with a default: const { name = dflt } = dto
Field(dto, name, dflt) == IF name \in DOMAIN dto THEN dto[name] ELSE dflt

DefaultPage == 1
DefaultPageSize == 10

\* Math.ceil(total / pageSize) for total >= 0, pageSize >= 1
CeilDiv(total, pageSize) == (total + pageSize - 1) \div pageSize

\* The value findAll returns for a pagination query.
FindAllValue(tbl, dto) ==
    LET page     == Field(dto, "page", DefaultPage)
        pageSize == Field(dto, "pageSize", DefaultPageSize)
        skip     == (page - 1) * pageSize
        found    == FindAndCount(tbl, skip, pageSize)
    IN  [items      |-> [k \in DOMAIN found.rows |-> StripPassword(found.rows[k])],
         total      |-> found.count,
         page       |-> page,
         pageSize   |-> pageSize,
         totalPages |-> CeilDiv(found.count, pageSize)]

\* The row findOneBy({ email }) yields (the table holds one in the calls below).
RowByEmail(tbl, email) ==
    tbl[CHOOSE i \in DOMAIN tbl : tbl[i].email = email]

\* update: `if (updateUserDto.password)` re-hash, then { ...user, ...updateUserDto }
HashedDto(dto, salt) ==
    IF "password" \in DOMAIN dto /\ Truthy(dto.password)
    THEN [dto EXCEPT !.password = BcryptHash(dto.password, salt)]
    ELSE dto

Spread(user, dto) == dto @@ user

Returned(op, args, value) ==
    [op |-> op, args |-> args, ok |-> TRUE, err |-> NoError, value |-> value]

Thrown(op, args, e) ==
    [op |-> op, args |-> args, ok |-> FALSE, err |-> e, value |-> <<>>]

Void == <<>>

\* --------------------------------------------------------------- inputs
CreateDtos ==
    [userName : UserNames, email : Emails,
     password : {Str(s) : s \in CreatePasswords}]

\* UpdateUserDto: every field optional, so a patch names any subset of them
UpdateDtos ==
    { [f \in fs |-> d[f]] :
        fs \in SUBSET {"userName", "email", "password"},
        d \in [userName : UpdateNames, email : Emails,
               password : {Str(s) : s \in UpdatePasswords}] }

PaginationDtos == [page : Pages, limit : Limits]

\* --------------------------------------------------------------- actions
Init ==
    /\ databaseEnabled \in BOOLEAN
    /\ users = << >>
    /\ nextId = 1
    /\ pc = [p \in Procs |-> "idle"]
    /\ loc = [p \in Procs |-> NoLocals]
    /\ response = Thrown("none", Void, NoError)
    /\ calls = 0

\* A call may start on an idle request while the call budget lasts.
CanStart(p) == pc[p] = "idle" /\ calls < MaxCalls

Finish(p, r) ==
    /\ response' = r
    /\ pc' = [pc EXCEPT ![p] = "idle"]
    /\ loc' = [loc EXCEPT ![p] = NoLocals]

\* create: if (!this.databaseEnabled) throw, ahead of the try block
MutCreateRefused(enabled) == FALSE
CreateRefused(enabled) == ~enabled

\* create, up to the await of findOneBy({ email })
Create(p, dto) ==
    /\ CanStart(p)
    /\ calls' = calls + 1
    /\ UNCHANGED <<databaseEnabled, users, nextId>>
    /\ IF CreateRefused(databaseEnabled)
       THEN Finish(p, Thrown("create", dto, FeatureDisabled))
       ELSE IF EmailTaken(users, dto.email)
       THEN Finish(p, Thrown("create", dto, CreateCatch(DuplicateEmail)))
       ELSE /\ pc' = [pc EXCEPT ![p] = "create_save"]
            /\ loc' = [loc EXCEPT ![p] = [op |-> "create", dto |-> dto]]
            /\ UNCHANGED response

\* create, from genSalt / hash to the return: the INSERT of the new row
CreateSave(p, salt) ==
    /\ pc[p] = "create_save"
    /\ nextId <= MaxUsers
    /\ LET dto  == loc[p].dto
           user == [id           |-> nextId,
                    userName     |-> dto.userName,
                    email        |-> dto.email,
                    password     |-> BcryptHash(dto.password, salt),
                    refreshToken |-> Null,
                    createdAt    |-> nextId]
       IN  IF SaveFails(users, user)
           THEN /\ users' = users
                /\ Finish(p, Thrown("create", dto, CreateCatch(QueryFailed)))
           ELSE /\ users' = SaveTable(users, user)
                /\ Finish(p, Returned("create", dto, StripPassword(user)))
    /\ nextId' = nextId + 1
    /\ UNCHANGED <<databaseEnabled, calls>>

FindAll(p, dto) ==
    /\ CanStart(p)
    /\ calls' = calls + 1
    /\ Finish(p, Returned("findAll", dto, FindAllValue(users, dto)))
    /\ UNCHANGED <<databaseEnabled, users, nextId>>

FindOne(p, email) ==
    /\ CanStart(p)
    /\ calls' = calls + 1
    /\ Finish(p, IF EmailTaken(users, email)
                 THEN Returned("findOne", email, RowByEmail(users, email))
                 ELSE Thrown("findOne", email, FindOneCatch(UnauthorizedLookup)))
    /\ UNCHANGED <<databaseEnabled, users, nextId>>

\* The value findById returns for a stored id.
FindByIdValue(tbl, id) == StripPassword(tbl[id])

FindById(p, id) ==
    /\ CanStart(p)
    /\ calls' = calls + 1
    /\ Finish(p, IF id \in DOMAIN users
                 THEN Returned("findById", id, FindByIdValue(users, id))
                 ELSE Thrown("findById", id, FindByIdCatch(NotFound)))
    /\ UNCHANGED <<databaseEnabled, users, nextId>>

\* update, up to the await of findById(id)
Update(p, id, dto) ==
    /\ CanStart(p)
    /\ calls' = calls + 1
    /\ UNCHANGED <<databaseEnabled, users, nextId>>
    /\ IF id \notin DOMAIN users
       THEN Finish(p, Thrown("update", [id |-> id, dto |-> dto],
                             UpdateCatch(FindByIdCatch(NotFound))))
       ELSE LET user == FindByIdValue(users, id)
            IN  /\ pc' = [pc EXCEPT ![p] =
                        IF "email" \in DOMAIN dto /\ dto.email # user.email
                        THEN "update_check" ELSE "update_save"]
                /\ loc' = [loc EXCEPT ![p] =
                        [op |-> "update", id |-> id, dto |-> dto, user |-> user]]
                /\ UNCHANGED response

\* update, the await of findOneBy({ email: updateUserDto.email })
UpdateCheck(p) ==
    /\ pc[p] = "update_check"
    /\ UNCHANGED <<databaseEnabled, users, nextId, calls>>
    /\ IF EmailTaken(users, loc[p].dto.email)
       THEN Finish(p, Thrown("update", [id |-> loc[p].id, dto |-> loc[p].dto],
                             UpdateCatch(DuplicateEmail)))
       ELSE /\ pc' = [pc EXCEPT ![p] = "update_save"]
            /\ UNCHANGED <<loc, response>>

\* update, from the password re-hash to the return: save({ ...user, ...dto })
UpdateSave(p, salt) ==
    /\ pc[p] = "update_save"
    /\ LET args == [id |-> loc[p].id, dto |-> loc[p].dto]
           obj  == Spread(loc[p].user, HashedDto(loc[p].dto, salt))
       IN  IF SaveFails(users, obj)
           THEN /\ users' = users
                /\ Finish(p, Thrown("update", args, UpdateCatch(QueryFailed)))
           ELSE /\ users' = SaveTable(users, obj)
                /\ Finish(p, Returned("update", args, StripPassword(obj)))
    /\ UNCHANGED <<databaseEnabled, nextId, calls>>

Remove(p, id) ==
    /\ CanStart(p)
    /\ calls' = calls + 1
    /\ users' = DeleteRow(users, id)
    /\ Finish(p, IF Affected(users, id) = 0
                 THEN Thrown("remove", id, RemoveCatch(NotFound))
                 ELSE Returned("remove", id, Void))
    /\ UNCHANGED <<databaseEnabled, nextId>>

\* updateRefreshToken: const hashedRefreshToken = await bcrypt.hash(refreshToken, 10)
MutHashedRefreshToken(token, salt) == token
HashedRefreshToken(token, salt) == BcryptHash(token, salt)

UpdateRefreshToken(p, userId, token, salt) ==
    /\ CanStart(p)
    /\ calls' = calls + 1
    /\ users' = UpdateColumn(users, userId, HashedRefreshToken(token, salt))
    /\ Finish(p, Returned("updateRefreshToken",
                          [userId |-> userId, token |-> token], Void))
    /\ UNCHANGED <<databaseEnabled, nextId>>

RemoveRefreshToken(p, userId) ==
    /\ CanStart(p)
    /\ calls' = calls + 1
    /\ users' = UpdateColumn(users, userId, Null)
    /\ Finish(p, Returned("removeRefreshToken", userId, Void))
    /\ UNCHANGED <<databaseEnabled, nextId>>

Next ==
    \E p \in Procs :
        \/ \E dto \in CreateDtos : Create(p, dto)
        \/ \E salt \in Salts : CreateSave(p, salt)
        \/ \E dto \in PaginationDtos : FindAll(p, dto)
        \/ \E email \in Emails : FindOne(p, email)
        \/ \E id \in Ids : FindById(p, id)
        \/ \E id \in Ids, dto \in UpdateDtos : Update(p, id, dto)
        \/ UpdateCheck(p)
        \/ \E salt \in Salts : UpdateSave(p, salt)
        \/ \E id \in Ids : Remove(p, id)
        \/ \E id \in Ids, token \in RawTokens, salt \in Salts :
               UpdateRefreshToken(p, id, Str(token), salt)
        \/ \E id \in Ids : RemoveRefreshToken(p, id)

Spec == Init /\ [][Next]_vars

\* ------------------------------------------------------------ properties
\* A step in which a service call returns or throws; response' is its outcome.
Completes ==
    \/ calls' # calls /\ pc' = pc
    \/ \E p \in Procs : pc[p] # "idle" /\ pc'[p] = "idle"

\* A step in which a call starts (its first repository round trip).
Starts == calls' = calls + 1

C2_NoPasswordReturned ==
    /\ (response.ok /\ response.op \in {"create", "findById", "update"})
           => "password" \notin DOMAIN response.value
    /\ (response.ok /\ response.op = "findAll")
           => \A k \in DOMAIN response.value.items :
                  "password" \notin DOMAIN response.value.items[k]
    /\ (response.ok /\ response.op = "findOne")
           => "password" \in DOMAIN response.value

\* an update that set a password has returned its user view
C2_Witness ==
    /\ response.ok /\ response.op = "update"
    /\ "password" \in DOMAIN response.args.dto
    /\ response.args.id \in DOMAIN users
    /\ users[response.args.id].password.kind = "hash"
    /\ users[response.args.id].password.text = response.args.dto.password.text

\* C3: no value returned by create, findAll, findById or update carries a
\* non-null refreshToken.
C3_NoRefreshTokenReturned ==
    /\ (response.ok /\ response.op \in {"create", "findById", "update"})
           => ("refreshToken" \in DOMAIN response.value
                  => response.value.refreshToken = Null)
    /\ (response.ok /\ response.op = "findAll")
           => \A k \in DOMAIN response.value.items :
                  "refreshToken" \in DOMAIN response.value.items[k]
                      => response.value.items[k].refreshToken = Null

\* C4: findAll({page, limit}) returns the users at positions
\* (page-1)*limit+1 .. page*limit of the store ordered newest first, with
\* total the number of users, pageSize = limit, totalPages = ceil(total/limit).
C4_FindAllPage ==
    (response.ok /\ response.op = "findAll") =>
        LET page   == response.args.page
            limit  == response.args.limit
            all    == OrderByCreatedAtDesc(users, DOMAIN users)
            first  == (page - 1) * limit + 1
            last   == Min(page * limit, Len(all))
        IN  /\ Len(response.value.items) = (IF last >= first THEN last - first + 1 ELSE 0)
            /\ Len(response.value.items) <= limit
            /\ \A k \in DOMAIN response.value.items :
                   response.value.items[k].id = all[first + k - 1].id
            /\ response.value.total = Cardinality(DOMAIN users)
            /\ response.value.pageSize = limit
            /\ response.value.totalPages * limit >= response.value.total
            /\ (response.value.totalPages - 1) * limit < response.value.total
                   \/ response.value.total = 0

\* C5: when a stored user already has the given email at create's existence
\* check, create throws DuplicateEmail as it is and the store is unchanged.
C5_CreateDuplicate ==
    [][ /\ (Starts /\ Completes /\ response'.op = "create" /\ databaseEnabled
               /\ EmailTaken(users, response'.args.email))
            => (~response'.ok /\ response'.err = DuplicateEmail /\ users' = users)
        /\ \A p \in Procs :
               (pc[p] = "idle" /\ pc'[p] = "create_save")
                   => ~EmailTaken(users, loc'[p].dto.email)
      ]_vars

\* a create was refused for its duplicate email, the holder still stored
C5_Witness ==
    /\ response.op = "create" /\ ~response.ok
    /\ response.err.kind = "DuplicateEmail"
    /\ EmailTaken(users, response.args.email)

\* C6: delete is a hard removal: an id that was handed out and whose user is
\* gone (remove(id) succeeded) has no user in any later state, so every later
\* findById(id) fails with NotFound, under any interleaving.
C6_RemovedStaysRemoved ==
    [][ /\ \A i \in Ids :
               (i < nextId /\ i \notin DOMAIN users) => i \notin DOMAIN users'
        /\ (Completes /\ response'.op = "findById"
               /\ response'.args < nextId /\ response'.args \notin DOMAIN users)
            => (~response'.ok /\ response'.err = NotFound)
      ]_vars

\* C7: remove(id) on an id no stored user has throws NotFound as it is and
\* leaves the table unchanged; on an existing id it deletes exactly that user.
C7_Remove ==
    [][ (Completes /\ response'.op = "remove") =>
            LET id == response'.args
            IN  IF id \in DOMAIN users
                THEN /\ response'.ok
                     /\ DOMAIN users' = (DOMAIN users) \ {id}
                     /\ \A i \in DOMAIN users' : users'[i] = users[i]
                ELSE /\ ~response'.ok
                     /\ response'.err = NotFound
                     /\ users' = users
      ]_vars

\* a remove has deleted one user and another user is still stored
C7_Witness ==
    /\ response.op = "remove" /\ response.ok
    /\ response.args \notin DOMAIN users
    /\ response.args < nextId
    /\ users # << >>

\* C8: in every reachable state each stored password is the output of the
\* salt-and-hash step, never a raw value supplied by a caller.
C8_PasswordsHashed ==
    \A i \in DOMAIN users : users[i].password.kind = "hash"

\* C9: after update(id, {password: p}) succeeds on an existing user whose
\* stored hash verified a raw password q different from p, the stored hash
\* verifies p and no longer verifies q.
C9_PasswordChanged ==
    [][ (/\ Completes /\ response'.op = "update" /\ response'.ok
         /\ "password" \in DOMAIN response'.args.dto
         /\ response'.args.id \in DOMAIN users
         /\ users[response'.args.id].password.kind = "hash"
         /\ users[response'.args.id].password.text # response'.args.dto.password.text)
        => LET id == response'.args.id
               p  == response'.args.dto.password
               q  == Str(users[id].password.text)
           IN  /\ id \in DOMAIN users'
               /\ BcryptCompare(p, users'[id].password)
               /\ ~BcryptCompare(q, users'[id].password)
      ]_vars

\* C10: removeRefreshToken(userId) leaves that user's stored refreshToken
\* null; after updateRefreshToken(userId, token) the stored value is a hash
\* of the token, not the raw token, and no stored token is ever a raw string.
C10_RefreshTokenLifecycle ==
    [][ /\ (Completes /\ response'.op = "removeRefreshToken"
               /\ response'.args \in DOMAIN users)
            => /\ response'.ok
               /\ response'.args \in DOMAIN users'
               /\ users'[response'.args].refreshToken = Null
        /\ (Completes /\ response'.op = "updateRefreshToken"
               /\ response'.args.userId \in DOMAIN users)
            => LET id == response'.args.userId
               IN  /\ response'.ok
                   /\ id \in DOMAIN users'
                   /\ users'[id].refreshToken # response'.args.token
                   /\ users'[id].refreshToken.kind = "hash"
                   /\ BcryptCompare(response'.args.token, users'[id].refreshToken)
        /\ \A i \in DOMAIN users' : users'[i].refreshToken.kind \in {"null", "hash"}
      ]_vars

\* between the two calls: a stored user holds the hash of the token just set
C10_Witness ==
    /\ response.op = "updateRefreshToken" /\ response.ok
    /\ response.args.userId \in DOMAIN users
    /\ users[response.args.userId].refreshToken.kind = "hash"
    /\ BcryptCompare(response.args.token, users[response.args.userId].refreshToken)

\* C11: findById(id) throws NotFound exactly when no stored user has that id
\* and otherwise returns the user with that id; findOne({email}) throws the
\* distinct UnauthorizedLookup exactly when no stored user has that email and
\* otherwise returns a stored user with that email; neither changes the store
\* and neither error is re-wrapped as OperationFailed.
C11_Lookups ==
    [][ /\ (Completes /\ response'.op = "findById") =>
               LET id == response'.args
               IN  /\ users' = users
                   /\ response'.ok <=> id \in DOMAIN users
                   /\ response'.ok =>
                          /\ response'.value.id = id
                          /\ \A f \in DOMAIN response'.value :
                                 response'.value[f] = users[id][f]
                   /\ ~response'.ok => response'.err = NotFound
        /\ (Completes /\ response'.op = "findOne") =>
               LET email == response'.args
               IN  /\ users' = users
                   /\ response'.ok <=> EmailTaken(users, email)
                   /\ response'.ok =>
                          /\ response'.value.email = email
                          /\ \E i \in DOMAIN users : users[i] = response'.value
                   /\ ~response'.ok =>
                          /\ response'.err = UnauthorizedLookup
                          /\ response'.err # NotFound
                          /\ response'.err # OperationFailed
      ]_vars

\* a findById of an id no stored user has threw NotFound while another user
\* is stored
C11_Witness ==
    /\ response.op = "findById" /\ ~response.ok
    /\ response.err.kind = "NotFound"
    /\ response.args \notin DOMAIN users
    /\ users # << >>

\* C12: with persistence disabled create throws FeatureDisabled before any
\* repository access and the store is unchanged; with persistence enabled
\* and the email not taken, create adds exactly one user, under a newly
\* generated id that no existing user has, and changes no other user.
C12_CreateGateAndInsert ==
    [][ /\ (Starts /\ Completes /\ response'.op = "create" /\ ~databaseEnabled)
            => (~response'.ok /\ response'.err = FeatureDisabled /\ users' = users)
        /\ \A p \in Procs :
               /\ (pc[p] = "idle" /\ pc'[p] = "create_save") => databaseEnabled
               /\ (Starts /\ pc[p] = "idle" /\ pc'[p] # "idle"
                       /\ loc'[p].op = "create") => pc'[p] = "create_save"
               /\ (pc[p] = "create_save" /\ pc'[p] = "idle") =>
                      /\ response'.op = "create" /\ response'.ok
                      /\ response'.value.id \notin DOMAIN users
                      /\ response'.value.id >= nextId
                      /\ DOMAIN users' = (DOMAIN users) \cup {response'.value.id}
                      /\ \A i \in DOMAIN users : users'[i] = users[i]
                      /\ users'[response'.value.id].email = loc[p].dto.email
                      /\ users'[response'.value.id].userName = loc[p].dto.userName
        /\ (Starts /\ Completes /\ response'.op = "create" /\ databaseEnabled)
            => EmailTaken(users, response'.args.email)
      ]_vars

\* a second create has added its user under a new id beside the first
C12_Witness ==
    /\ response.op = "create" /\ response.ok
    /\ response.value.id \in DOMAIN users
    /\ Cardinality(DOMAIN users) = 2
    /\ users[response.value.id].email = response.args.email

\* A step in which request p's update writes and returns: save has run.
UpdateWrites(p) ==
    /\ pc[p] = "update_save" /\ pc'[p] = "idle"
    /\ response'.op = "update" /\ response'.ok

\* C13: update(id, patch) changes only the fields named in patch: the user's
\* id, createdAt, refreshToken and each of userName, email, password the patch
\* does not name are stored after the call as before it, no other user is
\* changed, and an empty patch leaves the user's stored values unchanged.
C13_MergePatch ==
    [][ \A p \in Procs :
            (UpdateWrites(p) /\ loc[p].id \in DOMAIN users) =>
                LET id  == loc[p].id
                    dto == loc[p].dto
                IN  /\ DOMAIN users' = DOMAIN users
                    /\ \A f \in {"id", "createdAt", "refreshToken"} :
                           users'[id][f] = users[id][f]
                    /\ \A f \in {"userName", "email", "password"} \ DOMAIN dto :
                           users'[id][f] = users[id][f]
                    /\ \A i \in (DOMAIN users) \ {id} : users'[i] = users[i]
                    /\ (DOMAIN dto = {}) => users'[id] = users[id]
      ]_vars

\* The same for an update during which no other call wrote the user it loaded.
C13_Undisturbed ==
    [][ \A p \in Procs :
            (/\ UpdateWrites(p) /\ loc[p].id \in DOMAIN users
             /\ loc[p].user = StripPassword(users[loc[p].id])) =>
                LET id  == loc[p].id
                    dto == loc[p].dto
                IN  /\ DOMAIN users' = DOMAIN users
                    /\ \A f \in {"id", "createdAt", "refreshToken"} :
                           users'[id][f] = users[id][f]
                    /\ \A f \in {"userName", "email", "password"} \ DOMAIN dto :
                           users'[id][f] = users[id][f]
                    /\ \A i \in (DOMAIN users) \ {id} : users'[i] = users[i]
                    /\ (DOMAIN dto = {}) => users'[id] = users[id]
      ]_vars

C15_UpdateNotFound ==
    [][ /\ (Starts /\ Completes /\ response'.op = "update") =>
               /\ response'.args.id \notin DOMAIN users
               /\ ~response'.ok
               /\ response'.err = NotFound
               /\ response'.err # OperationFailed
               /\ users' = users
        /\ \A p \in Procs :
               (Starts /\ pc[p] = "idle" /\ pc'[p] # "idle" /\ loc'[p].op = "update")
                   => loc'[p].id \in DOMAIN users
      ]_vars

\* an update of an id no stored user has threw NotFound; another user is stored
C15_Witness ==
    /\ response.op = "update" /\ ~response.ok
    /\ response.err.kind = "NotFound"
    /\ response.args.id \notin DOMAIN users
    /\ users # << >>

\* C16: no refresh-token change is lost to a concurrent update: when the
\* stored refreshToken was changed by updateRefreshToken / removeRefreshToken
\* between update's read and its write, the stored refreshToken after the
\* write is still the value that call wrote, not the value update read.
C16_NoLostRefreshToken ==
    [][ \A p \in Procs :
            (/\ UpdateWrites(p) /\ loc[p].id \in DOMAIN users
             /\ users[loc[p].id].refreshToken # loc[p].user.refreshToken)
                => /\ loc[p].id \in DOMAIN users'
                   /\ users'[loc[p].id].refreshToken = users[loc[p].id].refreshToken
                   /\ users'[loc[p].id].refreshToken # loc[p].user.refreshToken
      ]_vars

\* C17: updateRefreshToken(userId, token) and removeRefreshToken(userId)
\* change only the refreshToken field of the user with that id, leaving every
\* other field and every other user unchanged; when no user has that id they
\* complete without an error and leave the store unchanged (no row created).
C17_RefreshTokenFrame ==
    [][ (Completes /\ response'.op \in {"updateRefreshToken", "removeRefreshToken"}) =>
            LET userId == IF response'.op = "updateRefreshToken"
                          THEN response'.args.userId ELSE response'.args
            IN  /\ response'.ok
                /\ DOMAIN users' = DOMAIN users
                /\ \A i \in (DOMAIN users) \ {userId} : users'[i] = users[i]
                /\ userId \in DOMAIN users =>
                       \A f \in (DOMAIN users[userId]) \ {"refreshToken"} :
                           users'[userId][f] = users[userId][f]
                /\ userId \notin DOMAIN users => users' = users
      ]_vars

\* one of two stored users had its refresh token set; the other has none
C17_Witness ==
    /\ response.op = "updateRefreshToken" /\ response.ok
    /\ response.args.userId \in DOMAIN users
    /\ users[response.args.userId].refreshToken.kind = "hash"
    /\ \E i \in (DOMAIN users) \ {response.args.userId} :
           users[i].refreshToken = Null

====
